---- MODULE Spec2Model ----
(***************************************************************************)
(* Model of snortsmith_rulegen/_utils.py: the field validators, the        *)
(* configuration resolver and the next-revision lookup over a rule file.   *)
(*                                                                         *)
(* A Python str is a sequence of characters, each character a one-element  *)
(* TLA+ string.  A character outside ASCII is written by its code point    *)
(* name (Sup2).  A call that returns is Ok(v); a call that raises          *)
(* ValueError is Err(message).  None is the empty tuple <<>> and a present *)
(* integer n is <<n>>.                                                     *)
(***************************************************************************)
EXTENDS Integers, Sequences, FiniteSets, TLC

VARIABLES fn, inp, pc, out, file

vars == <<fn, inp, pc, out, file>>

\* ------------------------------------------------------------------ bounds
MaxLen == 3
MaxDigits == 5
MaxOffLen == 2
MaxMetaLen == 5
MaxGap == 1
MaxInitLines == 1
MaxLines == 3

\* ------------------------------------------------------- python str model
Strs(A, n) == UNION {[1..k -> A] : k \in 0..n}

Digits == <<"0", "1", "2", "3", "4", "5", "6", "7", "8", "9">>

DecimalDigit == {Digits[i] : i \in 1..10}

\* U+00B2 SUPERSCRIPT TWO: str.isdigit() is True for it, int() rejects it.
Sup2 == "U+00B2"

OtherDigit == {Sup2}

UpperLetters == <<"A", "C", "E", "F", "N", "P", "R", "S", "U", "X", "Y">>

LowerLetters == <<"a", "c", "e", "f", "n", "p", "r", "s", "u", "x", "y">>

Letter == {UpperLetters[i] : i \in 1..Len(UpperLetters)}
            \cup {LowerLetters[i] : i \in 1..Len(LowerLetters)}
            \cup {"o", "b", "k", "d"}

Whitespace == {" ", "\t", "\n"}

DigitVal(c) == (CHOOSE i \in 1..10 : Digits[i] = c) - 1

LowerChar(c) ==
    IF \E i \in 1..Len(UpperLetters) : UpperLetters[i] = c
    THEN LowerLetters[CHOOSE i \in 1..Len(UpperLetters) : UpperLetters[i] = c]
    ELSE c

UpperChar(c) ==
    IF \E i \in 1..Len(LowerLetters) : LowerLetters[i] = c
    THEN UpperLetters[CHOOSE i \in 1..Len(LowerLetters) : LowerLetters[i] = c]
    ELSE c

StrLower(s) == [i \in 1..Len(s) |-> LowerChar(s[i])]

StrUpper(s) == [i \in 1..Len(s) |-> UpperChar(s[i])]

RECURSIVE LStrip(_)
LStrip(s) == IF s # <<>> /\ Head(s) \in Whitespace THEN LStrip(Tail(s)) ELSE s

RECURSIVE RStrip(_)
RStrip(s) ==
    IF s # <<>> /\ s[Len(s)] \in Whitespace
    THEN RStrip(SubSeq(s, 1, Len(s) - 1))
    ELSE s

Strip(s) == RStrip(LStrip(s))

RECURSIVE DigitsValue(_)
DigitsValue(s) ==
    IF s = <<>> THEN 0
    ELSE DigitsValue(SubSeq(s, 1, Len(s) - 1)) * 10 + DigitVal(s[Len(s)])

\* The digit part of an int() literal: decimal digits, single underscores
\* allowed between digits only.
IsIntBody(d) ==
    /\ d # <<>>
    /\ \A i \in 1..Len(d) : d[i] \in DecimalDigit \cup {"_"}
    /\ d[1] # "_"
    /\ d[Len(d)] # "_"
    /\ \A i \in 1..(Len(d) - 1) : ~(d[i] = "_" /\ d[i + 1] = "_")

IsNotUnderscore(c) == c # "_"

\* int(s): <<n>> when s is an integer literal, <<>> when int() raises
\* ValueError.
PyInt(s) ==
    LET t == Strip(s)
        signed == t # <<>> /\ Head(t) \in {"+", "-"}
        body == IF signed THEN Tail(t) ELSE t
        mag == DigitsValue(SelectSeq(body, IsNotUnderscore))
    IN  IF IsIntBody(body)
        THEN IF signed /\ Head(t) = "-" THEN <<0 - mag>> ELSE <<mag>>
        ELSE <<>>

RECURSIVE NatStr(_)
NatStr(n) ==
    IF n < 10 THEN <<Digits[n + 1]>>
    ELSE Append(NatStr(n \div 10), Digits[(n % 10) + 1])

\* str(n)
PyStr(n) == IF n < 0 THEN <<"-">> \o NatStr(0 - n) ELSE NatStr(n)

\* str.isdigit()
IsDigitStr(s) ==
    /\ s # <<>>
    /\ \A i \in 1..Len(s) : s[i] \in DecimalDigit \cup OtherDigit

\* str.isidentifier()
IsIdentifier(s) ==
    /\ s # <<>>
    /\ s[1] \in Letter \cup {"_"}
    /\ \A i \in 1..Len(s) : s[i] \in Letter \cup DecimalDigit \cup {"_"}

\* index of the first occurrence of c in s, 0 when absent
FirstIndex(s, c) ==
    IF \E i \in 1..Len(s) : s[i] = c
    THEN CHOOSE i \in 1..Len(s) : s[i] = c /\ \A j \in 1..(i - 1) : s[j] # c
    ELSE 0

\* s.split(c)
RECURSIVE Split(_, _)
Split(s, c) ==
    LET i == FirstIndex(s, c)
    IN  IF i = 0 THEN <<s>>
        ELSE <<SubSeq(s, 1, i - 1)>> \o Split(SubSeq(s, i + 1, Len(s)), c)

\* ---------------------------------------------------------------- results
Ok(v) == [ok |-> TRUE, val |-> v, err |-> ""]

Err(m) == [ok |-> FALSE, val |-> <<>>, err |-> m]

None == <<>>

\* ---------------------------------------------------------- _validate_port
AnyStr == <<"a", "n", "y">>

PortMin == 0

PortMax == 65535

MsgPortRange == "Port must be between 0 and 65535."

MsgPortNotInt == "Invalid port: must be an integer or 'any'."

\* A plausible slip: the upper limit excluded.
ValidatePortExclusiveMax(value) ==
    IF StrLower(value) = AnyStr THEN Ok(AnyStr)
    ELSE LET port == PyInt(value)
         IN  IF port = <<>> THEN Err(MsgPortNotInt)
             ELSE IF PortMin <= port[1] /\ port[1] < PortMax
                  THEN Ok(PyStr(port[1]))
                  ELSE Err(MsgPortNotInt)

\* The ValueError raised for the range (line 45) is raised inside the try
\* block and caught by its own except clause (line 46), which raises the
\* "must be an integer" message in its place.
ValidatePort(value) ==
    IF StrLower(value) = AnyStr THEN Ok(AnyStr)
    ELSE LET port == PyInt(value)
         IN  IF port = <<>> THEN Err(MsgPortNotInt)
             ELSE IF PortMin <= port[1] /\ port[1] <= PortMax
                  THEN Ok(PyStr(port[1]))
                  ELSE Err(MsgPortNotInt)

\* --------------------------------------------------------- _validate_flags
AllowedFlagChars == {"F", "S", "R", "P", "A", "U", "C", "E", "0", "*", "+", "!", ","}

MsgFlags == "Invalid character in TCP flags"

ValidateFlags(flags) ==
    IF \A i \in 1..Len(flags) : flags[i] \in AllowedFlagChars
    THEN Ok(StrUpper(flags))
    ELSE Err(MsgFlags)

\* ----------------------------------------------------------- _validate_msg
Backslash == "\\"

ReservedChars == {";", Backslash, "\"", "|", "'"}

\* reserved[char]
Reserved(c) == IF c = "'" THEN <<Backslash, ";">> ELSE <<Backslash, c>>

\* pattern (?<!\\)([;\\\"|\']): a reserved character not preceded by a
\* backslash in the subject string.
MsgPatternMatches(value, i) ==
    /\ value[i] \in ReservedChars
    /\ ~(i > 1 /\ value[i - 1] = Backslash)

RECURSIVE MsgSubFrom(_, _)
MsgSubFrom(value, i) ==
    IF i > Len(value) THEN <<>>
    ELSE (IF MsgPatternMatches(value, i) THEN Reserved(value[i]) ELSE <<value[i]>>)
         \o MsgSubFrom(value, i + 1)

ValidateMsg(value) == Ok(MsgSubFrom(value, 1))

\* -------------------------------------------------- _validate_offset_depth
\* An optional string is None or <<s>>.
Some(s) == <<s>>

MsgIntLiteral == "invalid literal for int() with base 10"

MsgOffsetDepth == "Offset cannot be greater than depth."

\* the condition `x and x.isdigit()`
PassesIsDigit(x) == x # None /\ x[1] # <<>> /\ IsDigitStr(x[1])

\* int(x) raises ValueError although x.isdigit() is True
IntRaises(x) == PassesIsDigit(x) /\ PyInt(x[1]) = <<>>

\* int(x) if x and x.isdigit() else None
IntOrNone(x) == IF PassesIsDigit(x) THEN PyInt(x[1]) ELSE None

ValidateOffsetDepth(offset, depth) ==
    IF IntRaises(offset) \/ IntRaises(depth) THEN Err(MsgIntLiteral)
    ELSE LET offset_val == IntOrNone(offset)
             depth_val == IntOrNone(depth)
         IN  IF offset_val # None /\ depth_val # None /\ offset_val[1] > depth_val[1]
             THEN Err(MsgOffsetDepth)
             ELSE Ok(<<offset_val, depth_val>>)

\* ------------------------------------------------------ _validate_metadata
MsgMetaSegment == "Invalid metadata segment"

MsgMetaKey == "Invalid metadata key"

MsgMetaValue == "Missing value for metadata key"

IsNonEmpty(s) == s # <<>>

\* a plausible slip: the segments are not trimmed
MetadataPartsUntrimmed(data) == SelectSeq(Split(data, ","), IsNonEmpty)

\* [item.strip() for item in data.split(",") if item.strip()]
MetadataParts(data) ==
    LET items == Split(data, ",")
    IN  SelectSeq([i \in 1..Len(items) |-> Strip(items[i])], IsNonEmpty)

\* the body of the loop for one part: the message raised, "" when none
PartError(part) ==
    LET i == FirstIndex(part, " ")
        key == SubSeq(part, 1, i - 1)
        val == SubSeq(part, i + 1, Len(part))
    IN  IF i = 0 THEN MsgMetaSegment
        ELSE IF ~IsIdentifier(key) THEN MsgMetaKey
        ELSE IF val = <<>> THEN MsgMetaValue
        ELSE ""

ValidateMetadata(data) ==
    LET parts == MetadataParts(data)
        bad == {i \in 1..Len(parts) : PartError(parts[i]) # ""}
    IN  IF bad = {} THEN Ok(data)
        ELSE Err(PartError(parts[CHOOSE i \in bad : \A j \in bad : i <= j]))

\* ---------------------------------------------------------------- _resolve
\* A Python value is <<type, repr>>.
PyNone == <<"NoneType", "None">>

\* _config._get_config_value: the value under the key, the default when the
\* key is absent.
GetConfigValue(config, key, default) ==
    IF key \in DOMAIN config THEN config[key] ELSE default

FalsyValues == {PyNone, <<"str", "">>, <<"int", "0">>, <<"bool", "False">>}

\* a plausible slip: `arg_val if arg_val else ...`
ResolveByTruth(arg_val, config, key, fallback) ==
    IF arg_val \notin FalsyValues THEN arg_val
    ELSE GetConfigValue(config, key, fallback)

Resolve(arg_val, config, key, fallback) ==
    IF arg_val # PyNone THEN arg_val ELSE GetConfigValue(config, key, fallback)

\* ---------------------------------------------------- _get_latest_revision
\* The rule file: whether the path exists and, when it does, the sequence of
\* its lines, each without its line terminator.
NoFile == [exists |-> FALSE, lines |-> <<>>]

FileOf(lines) == [exists |-> TRUE, lines |-> lines]

Newline == "\n"

HasPrefixAt(line, i, p) ==
    /\ i + Len(p) - 1 <= Len(line)
    /\ SubSeq(line, i, i + Len(p) - 1) = p

\* \s* from position i: the first position at or after i that holds no
\* whitespace
RECURSIVE SkipWhitespace(_, _)
SkipWhitespace(line, i) ==
    IF i <= Len(line) /\ line[i] \in Whitespace
    THEN SkipWhitespace(line, i + 1)
    ELSE i

\* \d+ from position i: the last position of the digit run starting at i
\* (i - 1 when there is none)
RECURSIVE DigitRunEnd(_, _)
DigitRunEnd(line, i) ==
    IF i <= Len(line) /\ line[i] \in DecimalDigit
    THEN DigitRunEnd(line, i + 1)
    ELSE i - 1

SidKeyword == <<"s", "i", "d", ":">>

RevKeyword == <<"r", "e", "v", ":">>

\* a plausible slip: the pattern does not anchor the ID at "sid:"
SidPatternUnanchored(sid) == PyStr(sid) \o <<";">>

\* the literal head of the pattern, rf'sid:{sid};'
SidPattern(sid) == SidKeyword \o PyStr(sid) \o <<";">>

\* where rev: must start when the pattern matches at position i
RevStart(line, sid, i) == SkipWhitespace(line, i + Len(SidPattern(sid)))

\* rf'sid:{sid};\s*rev:(\d+)' matches line at position i
MatchesAt(line, sid, i) ==
    LET j == RevStart(line, sid, i)
    IN  /\ HasPrefixAt(line, i, SidPattern(sid))
        /\ HasPrefixAt(line, j, RevKeyword)
        /\ DigitRunEnd(line, j + 4) >= j + 4

\* int(match.group(1)) for the match at position i
RevisionAt(line, sid, i) ==
    LET k == RevStart(line, sid, i) + 4
    IN  DigitsValue(SubSeq(line, k, DigitRunEnd(line, k)))

\* rev_pattern.search(line): the revision of the leftmost match, None when
\* the line has no match
Search(line, sid) ==
    LET starts == {i \in 1..Len(line) : MatchesAt(line, sid, i)}
    IN  IF starts = {} THEN None
        ELSE <<RevisionAt(line, sid, CHOOSE i \in starts : \A j \in starts : i <= j)>>

PyMax(a, b) == IF a >= b THEN a ELSE b

\* max_rev after the loop has read the first n lines
RECURSIVE MaxRevAfter(_, _, _)
MaxRevAfter(lines, sid, n) ==
    IF n = 0 THEN 0
    ELSE LET before == MaxRevAfter(lines, sid, n - 1)
             match == Search(Append(lines[n], Newline), sid)
         IN  IF match # None THEN PyMax(before, match[1]) ELSE before

GetLatestRevision(outfile, sid) ==
    IF ~outfile.exists THEN 1
    ELSE LET max_rev == MaxRevAfter(outfile.lines, sid, Len(outfile.lines))
         IN  IF max_rev # 0 THEN max_rev + 1 ELSE 1

\* The caller that regenerates a rule: it appends a rule line carrying
\* `sid:<sid>; rev:<rev>` to the file, creating the file when it is absent.
RuleLine(sid, gap, rev) ==
    SidKeyword \o PyStr(sid) \o <<";">> \o [i \in 1..gap |-> " "]
        \o RevKeyword \o PyStr(rev) \o <<";">>

AppendLine(outfile, line) == FileOf(Append(outfile.lines, line))

\* ------------------------------------------------------------------ inputs
PortAlphabet == {"a", "n", "y", "A", "N", "Y", "8", "-", "+", " ", "_", "x"}

PortDigits == {"0", "3", "5", "6"}

PortInputs ==
    Strs(PortAlphabet, MaxLen)
        \cup Strs(PortDigits, MaxDigits)
        \cup {<<"-">> \o d : d \in Strs(PortDigits, MaxDigits)}

FlagAlphabet == {"S", "s", "A", "a", "X", "x", "!", ",", "0", "*"}

FlagInputs == Strs(FlagAlphabet, MaxLen)

MsgAlphabet == {"a", ";", Backslash, "'", "|", "\""}

MsgInputs == Strs(MsgAlphabet, MaxLen)

OffsetAlphabet == {"0", "1", "5", "a", Sup2}

OptionalOffsets == {None} \cup {Some(s) : s \in Strs(OffsetAlphabet, MaxOffLen)}

OffsetDepthInputs == OptionalOffsets \X OptionalOffsets

MetaAlphabet == {"o", "1", "_", " ", ",", "\t"}

MetaInputs == Strs(MetaAlphabet, MaxMetaLen)

ArgValues == FalsyValues \cup {<<"str", "x">>}

ConfigValues == {PyNone, <<"str", "">>, <<"str", "c">>}

ConfigKeys == {"k", "j"}

Configs == UNION {[K -> ConfigValues] : K \in SUBSET ConfigKeys}

ResolveInputs ==
    ArgValues \X Configs \X (ConfigKeys \cup {"m"}) \X {PyNone, <<"str", "d">>}

FileSids == {7, 17, 71}

LookupSids == {7, 17}

FileRevs == {0, 2, 9}

SingleMarkerLines ==
    {RuleLine(sid, gap, rev) : sid \in FileSids, gap \in 0..MaxGap, rev \in FileRevs}

TwoMarkerLines ==
    {RuleLine(a[1], 1, a[2]) \o <<" ">> \o RuleLine(b[1], 1, b[2]) :
        a \in FileSids \X {2, 9}, b \in FileSids \X {2, 9}}

OtherLines ==
    {SidKeyword \o PyStr(sid) \o <<";">> : sid \in FileSids}
        \cup {RevKeyword \o <<"2", ";">>}

FileLines == SingleMarkerLines \cup TwoMarkerLines \cup OtherLines

InitFiles ==
    {NoFile} \cup {FileOf(lines) : lines \in UNION {[1..n -> FileLines] : n \in 0..MaxInitLines}}

\* ----------------------------------------------------------------- actions
\* A run of the validators is one call: fn and inp are the function called
\* and its argument, pc is "call" before the call and "done" after it.
Pending == Err("pending")

Calls ==
    ({"_validate_port"} \X PortInputs)
        \cup ({"_validate_flags"} \X FlagInputs)
        \cup ({"_validate_msg"} \X MsgInputs)
        \cup ({"_validate_offset_depth"} \X OffsetDepthInputs)
        \cup ({"_validate_metadata"} \X MetaInputs)
        \cup ({"_resolve"} \X ResolveInputs)

Init ==
    /\ \E c \in Calls : fn = c[1] /\ inp = c[2]
    /\ pc = "call"
    /\ out = Pending
    /\ file = NoFile

Return(result) ==
    /\ pc = "call"
    /\ pc' = "done"
    /\ out' = result
    /\ UNCHANGED <<fn, inp, file>>

CallValidatePort == fn = "_validate_port" /\ Return(ValidatePort(inp))

CallValidateFlags == fn = "_validate_flags" /\ Return(ValidateFlags(inp))

CallValidateMsg == fn = "_validate_msg" /\ Return(ValidateMsg(inp))

CallValidateOffsetDepth ==
    fn = "_validate_offset_depth" /\ Return(ValidateOffsetDepth(inp[1], inp[2]))

CallValidateMetadata == fn = "_validate_metadata" /\ Return(ValidateMetadata(inp))

CallResolve ==
    fn = "_resolve" /\ Return(Ok(Resolve(inp[1], inp[2], inp[3], inp[4])))

Next ==
    \/ CallValidatePort
    \/ CallValidateFlags
    \/ CallValidateMsg
    \/ CallValidateOffsetDepth
    \/ CallValidateMetadata
    \/ CallResolve

Spec == Init /\ [][Next]_vars

\* A run over the rule file: lookups and rule updates in any order, from any
\* rule file.
InitRev ==
    /\ fn = "start"
    /\ inp = <<>>
    /\ pc = "done"
    /\ out = Pending
    /\ file \in InitFiles

Lookup ==
    \E sid \in LookupSids :
        /\ fn' = "_get_latest_revision"
        /\ inp' = <<sid>>
        /\ pc' = "done"
        /\ out' = Ok(<<GetLatestRevision(file, sid)>>)
        /\ UNCHANGED file

Update ==
    \E sid \in LookupSids :
        LET rev == GetLatestRevision(file, sid)
        IN  /\ Len(file.lines) < MaxLines
            /\ fn' = "update"
            /\ inp' = <<sid>>
            /\ pc' = "done"
            /\ out' = Ok(<<rev>>)
            /\ file' = AppendLine(file, RuleLine(sid, 1, rev))

NextRev ==
    \/ Lookup
    \/ Update

SpecRev == InitRev /\ [][NextRev]_vars

\* ------------------------------------------------------------------ claims
Done(f) == fn = f /\ pc = "done"

\* C3: _validate_msg does not double-escape: applied to its own result it
\* returns that result unchanged.
C3_MsgEscapeIdempotent ==
    Done("_validate_msg") => ValidateMsg(out.val).val = out.val

\* The claim's reading of "case-insensitive on letters".
AllowedAfterUpper(flags) ==
    \A i \in 1..Len(flags) : UpperChar(flags[i]) \in AllowedFlagChars

\* C4: _validate_flags succeeds iff every character, after upper-casing, is
\* in the allowed alphabet, and then returns the upper-cased input.
C4_FlagsCaseInsensitive ==
    Done("_validate_flags") =>
        /\ out.ok <=> AllowedAfterUpper(inp)
        /\ out.ok => out.val = StrUpper(inp)

IsAnyVariant(value) ==
    /\ Len(value) = 3
    /\ value[1] \in {"a", "A"}
    /\ value[2] \in {"n", "N"}
    /\ value[3] \in {"y", "Y"}

ParsesAsInt(value) == PyInt(value) # <<>>

\* C5: _validate_port fails with the "must be an integer or 'any'" message
\* iff the input is neither a case variant of "any" nor parseable as an
\* integer; a parseable integer outside [0, 65535] fails with another message.
C5_NotIntegerMessageOnlyForNonNumeric ==
    Done("_validate_port") =>
        /\ (~out.ok /\ out.err = MsgPortNotInt)
              <=> (~IsAnyVariant(inp) /\ ~ParsesAsInt(inp))
        /\ (ParsesAsInt(inp) /\ ~IsAnyVariant(inp) /\ ~out.ok)
              => out.err # MsgPortNotInt

PortAccepted(value) ==
    \/ IsAnyVariant(value)
    \/ /\ ParsesAsInt(value)
       /\ PyInt(value)[1] \in 0..65535

\* C6 as stated: _validate_port succeeds exactly on the case variants of
\* "any" and the integers in [0, 65535], and returns a case variant of "any"
\* unchanged.
C6_AnyReturnedUnchanged ==
    Done("_validate_port") =>
        /\ out.ok <=> PortAccepted(inp)
        /\ IsAnyVariant(inp) => out.val = inp

\* C6 amended: _validate_port succeeds exactly on the case variants of "any"
\* and the integers in [0, 65535], and returns the lower-case string "any"
\* for every case variant of "any".
C6_AnyReturnedLowerCase ==
    Done("_validate_port") =>
        /\ out.ok <=> PortAccepted(inp)
        /\ IsAnyVariant(inp) => out.val = <<"a", "n", "y">>

C6_Witness ==
    /\ Done("_validate_port")
    /\ inp = <<"A", "N", "Y">>
    /\ out.ok
    /\ out.val # inp

\* C7: _resolve returns arg_val whenever it is not None, falsy values
\* included; when arg_val is None it returns the config's value for the key
\* if the key is present and the fallback otherwise.
C7_ResolvePrecedence ==
    Done("_resolve") =>
        LET arg_val == inp[1]
            config == inp[2]
            key == inp[3]
            fallback == inp[4]
        IN  /\ arg_val # PyNone => out.val = arg_val
            /\ (arg_val = PyNone /\ key \in DOMAIN config) => out.val = config[key]
            /\ (arg_val = PyNone /\ key \notin DOMAIN config) => out.val = fallback

C7_Witness ==
    /\ Done("_resolve")
    /\ inp[1] = <<"str", "">>
    /\ inp[3] \in DOMAIN inp[2]
    /\ inp[2][inp[3]] = <<"str", "c">>
    /\ out.val = <<"str", "">>

\* The claim's reading of a well-formed component: a non-empty string of the
\* decimal digits 0-9.
IsDigitsOnly(x) ==
    /\ x # None
    /\ x[1] # <<>>
    /\ \A i \in 1..Len(x[1]) : x[1][i] \in DecimalDigit

Component(x) == IF IsDigitsOnly(x) THEN <<DigitsValue(x[1])>> ELSE None

\* C8: _validate_offset_depth fails iff both components are present and
\* offset > depth; otherwise it returns, for each input, its integer value
\* when the input is a non-empty digits-only string and None otherwise; a
\* malformed input never raises.
C8_OffsetDepthSilentFallback ==
    Done("_validate_offset_depth") =>
        LET o == Component(inp[1])
            d == Component(inp[2])
        IN  /\ ~out.ok <=> (o # None /\ d # None /\ o[1] > d[1])
            /\ out.ok => out.val = <<o, d>>

\* The segments of data: the maximal comma-free stretches, given by their
\* first and last position (last = first - 1 for an empty segment).
IsSegment(data, a, b) ==
    /\ a \in 1..(Len(data) + 1)
    /\ b \in (a - 1)..Len(data)
    /\ \A i \in a..b : data[i] # ","
    /\ a = 1 \/ data[a - 1] = ","
    /\ b = Len(data) \/ data[b + 1] = ","

SegmentOk(seg) ==
    \/ \A i \in 1..Len(seg) : seg[i] \in Whitespace
    \/ \E i \in 1..Len(Strip(seg)) :
          LET t == Strip(seg)
          IN  /\ t[i] = " "
              /\ \A j \in 1..(i - 1) : t[j] # " "
              /\ IsIdentifier(SubSeq(t, 1, i - 1))
              /\ i < Len(t)

MetadataOk(data) ==
    \A a \in 1..(Len(data) + 1) : \A b \in 0..Len(data) :
        IsSegment(data, a, b) => SegmentOk(SubSeq(data, a, b))

\* C9: _validate_metadata succeeds iff every comma-separated segment that is
\* non-empty after trimming contains a space, has an identifier before its
\* first space and a non-empty value after it; on success it returns the
\* input unchanged.
C9_MetadataValid ==
    Done("_validate_metadata") =>
        /\ out.ok <=> MetadataOk(inp)
        /\ out.ok => out.val = inp

C9_Witness ==
    /\ Done("_validate_metadata")
    /\ inp = <<",", " ", "o", " ", "1">>
    /\ out.ok
    /\ out.val = inp

\* The revisions of every `sid:<sid>;` + whitespace + `rev:<M>` marker of the
\* file, wherever on a line it stands.
LineMarkerRevs(line, sid) ==
    {RevisionAt(line, sid, i) : i \in {j \in 1..Len(line) : MatchesAt(line, sid, j)}}

MarkerRevs(outfile, sid) ==
    UNION {LineMarkerRevs(outfile.lines[n], sid) : n \in 1..Len(outfile.lines)}

SetMax(S) == CHOOSE m \in S : \A x \in S : x <= m

\* C1: _get_latest_revision returns 1 when the file does not exist or holds
\* no marker for the ID, and otherwise 1 + the largest revision among all
\* the markers for the ID in the file, one or several to a line.
C1_NextRevisionOverAllMarkers ==
    Done("_get_latest_revision") =>
        out.val[1] = IF ~file.exists \/ MarkerRevs(file, inp[1]) = {}
                     THEN 1
                     ELSE 1 + SetMax(MarkerRevs(file, inp[1]))

\* The signature IDs of the rules in the file: the number written after each
\* "sid:" keyword.
SidsInLine(line) ==
    {DigitsValue(SubSeq(line, i + 4, DigitRunEnd(line, i + 4))) :
        i \in {j \in 1..Len(line) :
                 /\ HasPrefixAt(line, j, <<"s", "i", "d", ":">>)
                 /\ DigitRunEnd(line, j + 4) >= j + 4}}

SidsInFile(outfile) ==
    UNION {SidsInLine(outfile.lines[n]) : n \in 1..Len(outfile.lines)}

\* C2: when no rule in the file has signature ID S, also when other IDs end
\* or start with the digits of S, _get_latest_revision(file, S) returns 1.
C2_AbsentSidReturnsOne ==
    (Done("_get_latest_revision") /\ inp[1] \notin SidsInFile(file))
        => out.val[1] = 1

C2_Witness ==
    /\ Done("_get_latest_revision")
    /\ inp[1] = 7
    /\ SidsInFile(file) = {17, 71}
    /\ GetLatestRevision(file, 17) > 1
    /\ out.val[1] = 1

\* C10: every revision an update assigns to an ID is greater than every
\* revision already recorded for that ID in the file, the next lookup for the
\* ID returns that revision + 1, and a lookup never changes the file.
C10_RevisionsStrictlyIncrease ==
    [][/\ fn' = "_get_latest_revision" => file' = file
       /\ fn' = "update" =>
            /\ \A m \in MarkerRevs(file, inp'[1]) : out'.val[1] > m
            /\ GetLatestRevision(file', inp'[1]) = out'.val[1] + 1]_vars

====
